---------------------------- MODULE Spec2Model ----------------------------
(***************************************************************************)
(* Model of the json! syntax extension (src/src/macro.rs): the translation *)
(* of a token tree into an expression that builds a serialize::json value. *)
(*                                                                         *)
(* The translator is a set of mutually recursive pure functions whose only *)
(* side effect is cx.span_err.  Every function is modelled by an operator  *)
(* that returns a record                                                   *)
(*     [ret |-> the returned value, diags |-> the diagnostics emitted,     *)
(*      log |-> the calls made and the token trees examined, in order]     *)
(* Option<T> is a sequence of length 0 (None) or 1 (Some(x)).              *)
(***************************************************************************)
EXTENDS Naturals, Sequences, FiniteSets, TLC

VARIABLES
    tts,    \* the token trees of the macro body, as the host lexer hands them
    call,   \* the function that was called, and on which of the token trees
    out     \* what the call returned, emitted and examined

vars == <<tts, call, out>>

(***************************************************************************)
(* Option<T>                                                               *)
(***************************************************************************)
None == <<>>

Some(x) == <<x>>

is_none(o) == o = None

is_some(o) == Len(o) = 1

(***************************************************************************)
(* syntax::parse::token::Token, reduced to the variants the code           *)
(* distinguishes, plus representatives of "anything else".                 *)
(***************************************************************************)
LitStr(n) == [t |-> "LitStr", v |-> n]

LitInteger(n) == [t |-> "LitInteger", v |-> n]

LitFloat(n) == [t |-> "LitFloat", v |-> n]

\* Ident(id, Plain)
Ident(id) == [t |-> "Ident", v |-> id]

\* Ident(id, ModName): an identifier followed by `::`
IdentModName(id) == [t |-> "IdentModName", v |-> id]

Comma == [t |-> "Comma", v |-> ","]

Colon == [t |-> "Colon", v |-> ":"]

Minus == [t |-> "BinOp", v |-> "-"]

\* Token::is_keyword: only a plain identifier can be a keyword
is_keyword(tok, kw) == tok.t = "Ident" /\ tok.v = kw

(***************************************************************************)
(* syntax::ast::TokenTree.  A span is the path of 1-based child indices    *)
(* from the macro body to the node; the invocation itself has span <<>>.   *)
(***************************************************************************)
TtToken(sp, tok) == [tt |-> "TtToken", sp |-> sp, tok |-> tok]

TtDelimited(sp, delim, toks) ==
    [tt |-> "TtDelimited", sp |-> sp, delim |-> delim, tts |-> toks]

TtSequence(sp) == [tt |-> "TtSequence", sp |-> sp]

IsTok(tt, t) == tt.tt = "TtToken" /\ tt.tok.t = t

\* the comma!() and colon!() patterns of parse_object
comma(tt) == IsTok(tt, "Comma")

colon(tt) == IsTok(tt, "Colon")

\* pprust::tt_to_string: the rendered tokens of a token tree, in order
RECURSIVE tt_to_string(_)
RECURSIVE tts_to_string(_, _)
tts_to_string(toks, i) ==
    IF i > Len(toks) THEN <<>>
    ELSE tt_to_string(toks[i]) \o tts_to_string(toks, i + 1)

tt_to_string(tt) ==
    CASE tt.tt = "TtToken" -> <<tt.tok.v>>
      [] tt.tt = "TtDelimited" ->
            LET open  == CASE tt.delim = "Bracket" -> "["
                           [] tt.delim = "Brace"   -> "{"
                           [] tt.delim = "Paren"   -> "("
                close == CASE tt.delim = "Bracket" -> "]"
                           [] tt.delim = "Brace"   -> "}"
                           [] tt.delim = "Paren"   -> ")"
            IN  <<open>> \o tts_to_string(tt.tts, 1) \o <<close>>
      [] tt.tt = "TtSequence" -> <<"$(...)">>

(***************************************************************************)
(* Results and diagnostics.  A formatted message is the sequence of its     *)
(* pieces; the backquote of the source's messages is written ' here.       *)
(***************************************************************************)
R(ret, diags, log) == [ret |-> ret, diags |-> diags, log |-> log]

Ev(fn, sp) == [fn |-> fn, sp |-> sp]

\* cx.span_err(sp, msg)
span_err(sp, msg) == [sp |-> sp, msg |-> msg]

best_span(sp, tt) ==
    IF tt.tt = "TtToken" THEN tt.sp
    ELSE sp \* the span passed into the function!

expected_but_found(sp, expected, found) ==
    LET pp  == tt_to_string(found)
        err == <<"expected ", expected, " but found: '", pp, "'">>
    IN  span_err(best_span(sp, found), err)

(***************************************************************************)
(* Generated expressions (the quote_expr! templates)                       *)
(***************************************************************************)
ExprString(s) == [e |-> "::serialize::json::String", into_string |-> s]

ExprI64(tt) == [e |-> "::serialize::json::I64", as_i64 |-> tt]

ExprF64(tt) == [e |-> "::serialize::json::F64", lit |-> tt]

ExprNull == [e |-> "::serialize::json::Null"]

ExprBoolean(b) == [e |-> "::serialize::json::Boolean", b |-> b]

\* cx.expr_vec(sp, exprs) boxed and passed to List(xs.into_vec())
ExprList(sp, exprs) == [e |-> "::serialize::json::List", vec |-> exprs]

\* quote_stmt!(cx, $ob.insert($key, $value))
StmtInsert(key, value) == [insert_key |-> key, insert_value |-> value]

\* let mut _ob = TreeMap::new(); $stmts; Object(_ob)
ExprObject(stmts) == [e |-> "::serialize::json::Object", stmts |-> stmts]

\* quote_expr!(cx, $k.to_string())
ExprToString(k) == [e |-> "to_string", str |-> k]

\* parser.parse_expr(): the host expression the external parser returns
parse_expr(toks) == [e |-> "parse_expr", tts |-> toks]

\* ($expr).to_json()
ExprToJson(expr) == [e |-> "to_json", expr |-> expr]

(***************************************************************************)
(* The translator                                                          *)
(***************************************************************************)
RECURSIVE tt_to_expr(_)
RECURSIVE parse_array(_, _)
RECURSIVE parse_object(_, _)

token_to_expr(sp, tok) ==
    LET log == <<Ev("token_to_expr", sp)>> IN
    CASE tok.t = "LitStr" -> R(Some(ExprString(tok.v)), <<>>, log)
      [] tok.t = "LitInteger" -> R(Some(ExprI64(TtToken(sp, tok))), <<>>, log)
      [] tok.t = "LitFloat" -> R(Some(ExprF64(TtToken(sp, tok))), <<>>, log)
      [] tok.t = "Ident" /\ tok.v = "null" -> R(Some(ExprNull), <<>>, log)
      [] is_keyword(tok, "true") -> R(Some(ExprBoolean(TRUE)), <<>>, log)
      [] is_keyword(tok, "false") -> R(Some(ExprBoolean(FALSE)), <<>>, log)
      [] OTHER ->
            LET tt == TtToken(sp, tok)
                s  == tt_to_string(tt)
            IN  R(None, <<span_err(sp, <<"unexpected '", s, "' in JSON">>)>>, log)

\* the body of the `for (i, tt) in tts.iter().enumerate()` loop, from the
\* i-th token tree on (i is 1-based here, so the source's index is i - 1)
RECURSIVE parse_array_loop(_, _, _, _, _, _)
parse_array_loop(sp, toks, i, exprs, diags, log) ==
    IF i > Len(toks) THEN R(Some(exprs), diags, log)
    ELSE
        LET tt   == toks[i]
            log1 == Append(log, Ev("parse_array.iter", tt.sp))
        IN  IF (i - 1) % 2 = 1 THEN
                IF comma(tt) THEN
                    parse_array_loop(sp, toks, i + 1, exprs, diags, log1)
                ELSE
                    R(None, Append(diags, expected_but_found(sp, "','", tt)), log1)
            ELSE
                LET expr == tt_to_expr(tt) IN
                IF is_none(expr.ret) THEN
                    R(None, diags \o expr.diags, log1 \o expr.log)
                ELSE
                    parse_array_loop(sp, toks, i + 1, Append(exprs, expr.ret[1]),
                                     diags \o expr.diags, log1 \o expr.log)

\* faulty variant: the array reports a failure of its own on top of the one reported
parse_array_reporting_again(sp, toks) ==
    LET r == parse_array_loop(sp, toks, 1, <<>>, <<>>, <<Ev("parse_array", sp)>>)
    IN  IF is_none(r.ret)
        THEN R(None, Append(r.diags, span_err(sp, "invalid JSON array")), r.log)
        ELSE r

\* faulty variant: every expression is inserted at the front of the vector
parse_array_prepending(sp, toks) ==
    LET r == parse_array_loop(sp, toks, 1, <<>>, <<>>, <<Ev("parse_array", sp)>>)
    IN  IF is_none(r.ret) THEN r
        ELSE LET xs == r.ret[1]
             IN  R(Some([j \in 1..Len(xs) |-> xs[Len(xs) + 1 - j]]), r.diags, r.log)

\* faulty variant: a dangling comma is rejected
parse_array_rejecting_dangling_comma(sp, toks) ==
    LET log == <<Ev("parse_array", sp)>> IN
    IF Len(toks) > 0 /\ comma(toks[Len(toks)])
    THEN R(None, <<expected_but_found(sp, "value", toks[Len(toks)])>>, log)
    ELSE parse_array_loop(sp, toks, 1, <<>>, <<>>, log)

\* faulty variant: the separators are all checked before any value is translated
parse_array_separators_first(sp, toks) ==
    LET log == <<Ev("parse_array", sp)>>
        bad == {i \in 1..Len(toks) : (i - 1) % 2 = 1 /\ ~comma(toks[i])}
    IN  IF bad # {}
        THEN LET i == CHOOSE x \in bad : \A y \in bad : x <= y
             IN  R(None, <<expected_but_found(sp, "','", toks[i])>>,
                   log \o [j \in 1..i |-> Ev("parse_array.iter", toks[j].sp)])
        ELSE parse_array_loop(sp, toks, 1, <<>>, <<>>, log)

parse_array(sp, toks) ==
    parse_array_loop(sp, toks, 1, <<>>, <<>>, <<Ev("parse_array", sp)>>)

\* the chunk size of `tts.chunks(4)`
ChunkSize == 4

\* tts.chunks(n): consecutive slices of n elements, the last one shorter
\* when n does not divide the length
chunks(toks, n) ==
    [k \in 1..((Len(toks) + n - 1) \div n) |->
        SubSeq(toks, (k - 1) * n + 1,
               IF k * n < Len(toks) THEN k * n ELSE Len(toks))]

\* faulty variant: the value is translated before the fourth token is looked at
match_entry_value_first(sp, entry) ==
    LET n == Len(entry)
        str(tt) == IsTok(tt, "LitStr")
    IN  IF (n = 3 \/ n = 4) /\ str(entry[1]) /\ colon(entry[2]) THEN
            LET k == entry[1].tok.v
                v == tt_to_expr(entry[3])
            IN  IF is_none(v.ret) THEN R(None, v.diags, v.log)
                ELSE IF n = 4 /\ ~comma(entry[4]) THEN
                    R(None, v.diags \o <<expected_but_found(sp, "','", entry[4])>>, v.log)
                ELSE R(Some(<<ExprToString(k), v.ret[1]>>), v.diags, v.log)
        ELSE IF n = 2 /\ str(entry[1]) /\ colon(entry[2]) THEN
            R(None, <<span_err(entry[2].sp, "found ':' but no value afterwards")>>, <<>>)
        ELSE IF n >= 2 /\ str(entry[1]) THEN
            R(None, <<expected_but_found(sp, "':'", entry[2])>>, <<>>)
        ELSE IF n = 1 /\ str(entry[1]) THEN
            R(None, <<span_err(entry[1].sp, "found name but no colon-value afterwards")>>, <<>>)
        ELSE
            R(None, <<expected_but_found(sp, "string literal", entry[1])>>, <<>>)

\* faulty variant: the arm [LitStr, ref tt, ..] stands before the arm [LitStr, colon]
match_entry_arms_swapped(sp, entry) ==
    LET n == Len(entry)
        str(tt) == IsTok(tt, "LitStr")
    IN  IF \/ n = 3 /\ str(entry[1]) /\ colon(entry[2])
           \/ n = 4 /\ str(entry[1]) /\ colon(entry[2]) /\ comma(entry[4])
        THEN
            LET k == entry[1].tok.v
                v == tt_to_expr(entry[3])
            IN  IF is_none(v.ret) THEN R(None, v.diags, v.log)
                ELSE R(Some(<<ExprToString(k), v.ret[1]>>), v.diags, v.log)
        ELSE IF n = 4 /\ str(entry[1]) /\ colon(entry[2]) THEN
            R(None, <<expected_but_found(sp, "','", entry[4])>>, <<>>)
        ELSE IF n >= 2 /\ str(entry[1]) THEN
            R(None, <<expected_but_found(sp, "':'", entry[2])>>, <<>>)
        ELSE IF n = 2 /\ str(entry[1]) /\ colon(entry[2]) THEN
            R(None, <<span_err(entry[2].sp, "found ':' but no value afterwards")>>, <<>>)
        ELSE IF n = 1 /\ str(entry[1]) THEN
            R(None, <<span_err(entry[1].sp, "found name but no colon-value afterwards")>>, <<>>)
        ELSE
            R(None, <<expected_but_found(sp, "string literal", entry[1])>>, <<>>)

\* the `match entry` of parse_object: the arms in the order of the source.
\* An arm that yields an item returns Some(item); every other arm emits
\* its diagnostic and returns None.
match_entry(sp, entry) ==
    LET n == Len(entry)
        str(tt) == IsTok(tt, "LitStr")
    IN  \* "foo": VALUE | "foo": VALUE,
        IF \/ n = 3 /\ str(entry[1]) /\ colon(entry[2])
           \/ n = 4 /\ str(entry[1]) /\ colon(entry[2]) /\ comma(entry[4])
        THEN
            LET k == entry[1].tok.v
                v == tt_to_expr(entry[3])
            IN  IF is_none(v.ret) THEN R(None, v.diags, v.log)
                ELSE R(Some(<<ExprToString(k), v.ret[1]>>), v.diags, v.log)
        \* "foo": VALUE X
        ELSE IF n = 4 /\ str(entry[1]) /\ colon(entry[2]) THEN
            R(None, <<expected_but_found(sp, "','", entry[4])>>, <<>>)
        ELSE IF n = 2 /\ str(entry[1]) /\ colon(entry[2]) THEN
            R(None, <<span_err(entry[2].sp, "found ':' but no value afterwards")>>, <<>>)
        ELSE IF n >= 2 /\ str(entry[1]) THEN
            R(None, <<expected_but_found(sp, "':'", entry[2])>>, <<>>)
        ELSE IF n = 1 /\ str(entry[1]) THEN
            R(None, <<span_err(entry[1].sp, "found name but no colon-value afterwards")>>, <<>>)
        ELSE
            \* n >= 1: chunks() never returns an empty slice
            R(None, <<expected_but_found(sp, "string literal", entry[1])>>, <<>>)

\* the `for entry in tts.chunks(4)` loop, from the c-th chunk on
RECURSIVE parse_object_loop(_, _, _, _, _, _)
parse_object_loop(sp, cs, c, items, diags, log) ==
    IF c > Len(cs) THEN R(Some(items), diags, log)
    ELSE
        LET entry == cs[c]
            log1  == Append(log, Ev("parse_object.entry", entry[1].sp))
            item  == match_entry(sp, entry)
        IN  IF is_none(item.ret) THEN
                R(None, diags \o item.diags, log1 \o item.log)
            ELSE
                parse_object_loop(sp, cs, c + 1, Append(items, item.ret[1]),
                                  diags \o item.diags, log1 \o item.log)

\* faulty variant: the comma after the last entry is rejected
parse_object_rejecting_last_comma(sp, toks) ==
    LET log == <<Ev("parse_object", sp)>> IN
    IF Len(toks) = 0 THEN R(Some(<<>>), <<>>, log)
    ELSE IF comma(toks[Len(toks)])
    THEN R(None, <<expected_but_found(sp, "string literal", toks[Len(toks)])>>, log)
    ELSE parse_object_loop(sp, chunks(toks, ChunkSize), 1, <<>>, <<>>, log)

parse_object(sp, toks) ==
    LET log == <<Ev("parse_object", sp)>> IN
    IF Len(toks) = 0 THEN R(Some(<<>>), <<>>, log)
    ELSE parse_object_loop(sp, chunks(toks, ChunkSize), 1, <<>>, <<>>, log)

\* faulty variant: the statements are pushed for the items in reverse
insert_stmts_reversed(items) ==
    [j \in 1..Len(items) |->
        StmtInsert(items[Len(items) + 1 - j][1], items[Len(items) + 1 - j][2])]

\* the statements pushed by `for &(ref key, ref value) in items.iter()`
insert_stmts(items) ==
    [j \in 1..Len(items) |-> StmtInsert(items[j][1], items[j][2])]

\* faulty variant: the children of a parenthesis group are translated as JSON values
tt_to_expr_translating_escape(tt) ==
    LET log == <<Ev("tt_to_expr", tt.sp)>> IN
    CASE tt.tt = "TtToken" ->
            LET r == token_to_expr(tt.sp, tt.tok)
            IN  R(r.ret, r.diags, log \o r.log)
      [] tt.tt = "TtDelimited" /\ tt.delim = "Bracket" ->
            LET exprs == parse_array(tt.sp, tt.tts)
            IN  IF is_none(exprs.ret) THEN R(None, exprs.diags, log \o exprs.log)
                ELSE R(Some(ExprList(tt.sp, exprs.ret[1])),
                       exprs.diags, log \o exprs.log)
      [] tt.tt = "TtDelimited" /\ tt.delim = "Brace" ->
            LET items == parse_object(tt.sp, tt.tts)
            IN  IF is_none(items.ret) THEN R(None, items.diags, log \o items.log)
                ELSE R(Some(ExprObject(insert_stmts(items.ret[1]))),
                       items.diags, log \o items.log)
      [] tt.tt = "TtDelimited" /\ tt.delim = "Paren" ->
            LET exprs == parse_array(tt.sp, tt.tts)
            IN  IF is_none(exprs.ret) THEN R(None, exprs.diags, log \o exprs.log)
                ELSE R(Some(ExprToJson(parse_expr(tt.tts))), <<>>, log \o exprs.log)
      [] tt.tt = "TtSequence" ->
            R(None, <<span_err(tt.sp, "'json!' unexpected TtSequence")>>, log)

tt_to_expr(tt) ==
    LET log == <<Ev("tt_to_expr", tt.sp)>> IN
    CASE tt.tt = "TtToken" ->
            LET r == token_to_expr(tt.sp, tt.tok)
            IN  R(r.ret, r.diags, log \o r.log)
      [] tt.tt = "TtDelimited" /\ tt.delim = "Bracket" ->
            LET exprs == parse_array(tt.sp, tt.tts)
            IN  IF is_none(exprs.ret) THEN R(None, exprs.diags, log \o exprs.log)
                ELSE R(Some(ExprList(tt.sp, exprs.ret[1])),
                       exprs.diags, log \o exprs.log)
      [] tt.tt = "TtDelimited" /\ tt.delim = "Brace" ->
            LET items == parse_object(tt.sp, tt.tts)
            IN  IF is_none(items.ret) THEN R(None, items.diags, log \o items.log)
                ELSE R(Some(ExprObject(insert_stmts(items.ret[1]))),
                       items.diags, log \o items.log)
      [] tt.tt = "TtDelimited" /\ tt.delim = "Paren" ->
            LET expr == parse_expr(tt.tts)
            IN  R(Some(ExprToJson(expr)), <<>>, log)
      [] tt.tt = "TtSequence" ->
            R(None, <<span_err(tt.sp, "'json!' unexpected TtSequence")>>, log)

\* MacResult: MacExpr::new(expr) or the placeholder DummyResult::expr(sp)
MacExpr(expr) == [mac |-> "MacExpr", expr |-> expr]

DummyResult(sp) == [mac |-> "DummyResult", sp |-> sp]

\* faulty variant: a body of more than one token tree is rejected
expand_rejecting_rest(sp, toks) ==
    LET log == <<Ev("expand", sp)>> IN
    IF Len(toks) = 0 THEN
        R(DummyResult(sp), <<span_err(sp, "expected JSON literal")>>, log)
    ELSE IF Len(toks) > 1 THEN
        R(DummyResult(sp), <<expected_but_found(sp, "end of JSON literal", toks[2])>>, log)
    ELSE
        LET tt   == toks[1]
            expr == tt_to_expr(tt)
        IN  IF is_none(expr.ret) THEN R(DummyResult(sp), expr.diags, log \o expr.log)
            ELSE R(MacExpr(expr.ret[1]), expr.diags, log \o expr.log)

expand(sp, toks) ==
    LET log == <<Ev("expand", sp)>> IN
    IF Len(toks) = 0 THEN
        R(DummyResult(sp), <<span_err(sp, "expected JSON literal")>>, log)
    ELSE
        LET tt   == toks[1]
            expr == tt_to_expr(tt)
        IN  IF is_none(expr.ret) THEN R(DummyResult(sp), expr.diags, log \o expr.log)
            ELSE R(MacExpr(expr.ret[1]), expr.diags, log \o expr.log)

(***************************************************************************)
(* The inputs.  The host lexer hands over token trees that carry their     *)
(* spans; respan gives every node of a tree the path that leads to it.     *)
(***************************************************************************)
RECURSIVE respan(_, _)
spanned(toks, sp) == [i \in 1..Len(toks) |-> respan(toks[i], Append(sp, i))]

respan(tt, sp) ==
    CASE tt.tt = "TtToken" -> TtToken(sp, tt.tok)
      [] tt.tt = "TtDelimited" -> TtDelimited(sp, tt.delim, spanned(tt.tts, sp))
      [] tt.tt = "TtSequence" -> TtSequence(sp)

\* the span of the macro invocation
InvocationSpan == <<>>

Seqs(S, n) == UNION {[1..k -> S] : k \in 0..n}

Tok(tok) == TtToken(<<>>, tok)

Group(delim, toks) == TtDelimited(<<>>, delim, toks)

Delims == {"Bracket", "Brace", "Paren"}

strA == Tok(LitStr("a"))
strB == Tok(LitStr("b"))
int1 == Tok(LitInteger("1"))
int2 == Tok(LitInteger("2"))
minus == Tok(Minus)
tcomma == Tok(Comma)
tcolon == Tok(Colon)

\* every kind of leaf the classifier tells apart, and a TtSequence
Leaves ==
    {strA, int1, minus, tcomma, tcolon, Tok(LitFloat("1.5")), Tok(Ident("null")),
     Tok(Ident("true")), Tok(Ident("false")), Tok(Ident("foo")),
     Tok(IdentModName("null")), TtSequence(<<>>)}

\* groups of depth one: well-formed and malformed arrays, objects, escapes
InnerSeqs ==
    {<<>>, <<int1>>, <<minus>>, <<minus, int1>>, <<strA, tcolon, int1>>, <<strA, int1>>}

Groups1 == {Group(d, toks) : d \in Delims, toks \in InnerSeqs}

\* groups of depth two and three: a failure, or an escape, nested deeper
Groups2 ==
    {Group(d, <<g>>) : d \in {"Bracket", "Paren"},
                       g \in {Group("Bracket", <<minus>>), Group("Paren", <<minus>>),
                               Group("Brace", <<strA, int1>>)}}
    \cup {Group("Brace", <<strA, tcolon, Group("Bracket", <<Group("Bracket", <<minus>>)>>)>>),
          Group("Bracket", <<int1, tcomma, Group("Brace", <<strA, tcolon, minus, int1>>)>>)}

\* a few trees of any kind, in every order
MaxShort == 2
ShortWide == Seqs(Leaves \cup Groups1 \cup Groups2, MaxShort)

\* the tokens of arrays and objects, an escape and a failing nested array
MaxMid == 4
MidToks ==
    {strA, strB, tcolon, tcomma, int1, minus,
     Group("Paren", <<minus, tcolon>>), Group("Bracket", <<int1, tcomma, minus>>)}
MidSeqs == Seqs(MidToks, MaxMid)

\* long sequences of the four tokens of an object of integers
MaxLong == 7
LongNarrow == Seqs({strA, tcolon, tcomma, int1}, MaxLong)

\* sequences of object entries: string ':' value, with or without a comma
MaxEntries == 2
Entries ==
    {<<k, tcolon, v>> \o c :
        k \in {strA, strB},
        v \in {int1, int2, minus, Group("Bracket", <<int2>>)},
        c \in {<<>>, <<tcomma>>}}
RECURSIVE EntrySeqs(_)
EntrySeqs(n) ==
    IF n = 0 THEN {<<>>}
    ELSE LET S == EntrySeqs(n - 1)
         IN  S \cup {s \o e : s \in S, e \in Entries}

\* an entry followed by any window of the tokens of an object
TwoWindows ==
    {e \o w : e \in Entries, w \in Seqs({strA, tcolon, tcomma, int1, minus}, ChunkSize)}

Bodies ==
    ShortWide \cup MidSeqs \cup LongNarrow \cup EntrySeqs(MaxEntries) \cup TwoWindows

(***************************************************************************)
(* The state machine: the host lexes a macro body, then one of the         *)
(* functions is called on it.                                              *)
(***************************************************************************)
NoCall == [fn |-> "none", i |-> 0, delim |-> "none"]

Init ==
    /\ tts \in {spanned(b, InvocationSpan) : b \in Bodies}
    /\ call = NoCall
    /\ out = R(None, <<>>, <<>>)

\* the macro is expanded on the body
CallExpand ==
    /\ call = NoCall
    /\ call' = [fn |-> "expand", i |-> 0, delim |-> "none"]
    /\ out' = expand(InvocationSpan, tts)
    /\ UNCHANGED tts

\* the dispatcher is called on one of the token trees
CallTtToExpr ==
    /\ call = NoCall
    /\ \E i \in 1..Len(tts) :
        /\ call' = [fn |-> "tt_to_expr", i |-> i, delim |-> "none"]
        /\ out' = tt_to_expr(tts[i])
    /\ UNCHANGED tts

\* the dispatcher is called on a group whose children are the token trees
CallTtToExprGroup ==
    /\ call = NoCall
    /\ \E d \in Delims :
        /\ call' = [fn |-> "tt_to_expr", i |-> 0, delim |-> d]
        /\ out' = tt_to_expr(TtDelimited(InvocationSpan, d, tts))
    /\ UNCHANGED tts

\* the classifier is called on one of the tokens
CallTokenToExpr ==
    /\ call = NoCall
    /\ \E i \in 1..Len(tts) :
        /\ tts[i].tt = "TtToken"
        /\ call' = [fn |-> "token_to_expr", i |-> i, delim |-> "none"]
        /\ out' = token_to_expr(tts[i].sp, tts[i].tok)
    /\ UNCHANGED tts

\* the token trees are the children of a bracket group
CallParseArray ==
    /\ call = NoCall
    /\ call' = [fn |-> "parse_array", i |-> 0, delim |-> "Bracket"]
    /\ out' = parse_array(InvocationSpan, tts)
    /\ UNCHANGED tts

\* the token trees are the children of a brace group
CallParseObject ==
    /\ call = NoCall
    /\ call' = [fn |-> "parse_object", i |-> 0, delim |-> "Brace"]
    /\ out' = parse_object(InvocationSpan, tts)
    /\ UNCHANGED tts

Next ==
    \/ CallExpand
    \/ CallTtToExpr
    \/ CallTtToExprGroup
    \/ CallTokenToExpr
    \/ CallParseArray
    \/ CallParseObject

Spec == Init /\ [][Next]_vars

(***************************************************************************)
(* Vocabulary of the properties                                            *)
(***************************************************************************)
\* the token tree the dispatcher was called on
Arg ==
    IF call.i > 0 THEN tts[call.i]
    ELSE TtDelimited(InvocationSpan, call.delim, tts)

IsGroup(tt, d) == tt.tt = "TtDelimited" /\ tt.delim = d

IsNumber(tt) == IsTok(tt, "LitInteger") \/ IsTok(tt, "LitFloat")

IsMinus(tt) == tt.tt = "TtToken" /\ tt.tok = Minus

\* the token tree translates: the dispatcher returns an expression for it
Translates(tt) == is_some(tt_to_expr(tt).ret)

\* the expression the dispatcher returns for a token tree that translates
Translation(tt) == tt_to_expr(tt).ret[1]

Range(f) == {f[j] : j \in DOMAIN f}

IsPrefix(p, q) == Len(p) <= Len(q) /\ SubSeq(q, 1, Len(p)) = p

\* the spans of everything the call touched: calls, loop steps, diagnostics
Touched ==
    {out.log[j].sp : j \in 1..Len(out.log)} \cup {out.diags[j].sp : j \in 1..Len(out.diags)}

\* the diagnostic of the classifier for a token tree
Unexpected(tt) == span_err(tt.sp, <<"unexpected '", tt_to_string(tt), "' in JSON">>)

\* the diagnostic "expected <what> but found" for a token tree: at the token's
\* own span, or at the span of the enclosing group when it is not a token
Expected(what, tt) ==
    [sp  |-> IF tt.tt = "TtToken" THEN tt.sp ELSE InvocationSpan,
     msg |-> <<"expected ", what, " but found: '", tt_to_string(tt), "'">>]

(***************************************************************************)
(* C1  Every call of tt_to_expr and of expand returns an expression        *)
(* exactly when it emitted no diagnostic, and returns failure (None, the   *)
(* placeholder from expand) exactly when it emitted exactly one: never two *)
(* or more diagnostics, never a silent failure.                            *)
(***************************************************************************)
C1_OneDiagnosticPerFailure ==
    /\ call.fn = "tt_to_expr" =>
            /\ is_some(out.ret) <=> Len(out.diags) = 0
            /\ is_none(out.ret) <=> Len(out.diags) = 1
    /\ call.fn = "expand" =>
            /\ out.ret.mac = "MacExpr" <=> Len(out.diags) = 0
            /\ out.ret.mac = "DummyResult" <=> Len(out.diags) = 1

\* a failure three levels down, in an input with a second malformed element
C1_Witness ==
    /\ call.fn = "expand"
    /\ out.ret.mac = "DummyResult"
    /\ Len(out.diags) = 1
    /\ Len(out.diags[1].sp) >= 3
    /\ Len(tts) >= 2
    /\ ~Translates(tts[2])

(***************************************************************************)
(* Arrays                                                                  *)
(***************************************************************************)
\* the rule of the array at the i-th token tree (the source's position
\* i - 1): a comma at an odd position, a value that translates at an even one
ArrayRuleAt(toks, i) ==
    IF (i - 1) % 2 = 1 THEN comma(toks[i]) ELSE Translates(toks[i])

ArrayRule(toks) == \A i \in 1..Len(toks) : ArrayRuleAt(toks, i)

\* v0 , v1 , ... , v(n-1): n >= 0 values that translate, separated by commas
SeparatedValues(toks) ==
    /\ Len(toks) = 0 \/ Len(toks) % 2 = 1
    /\ ArrayRule(toks)

\* the translations of the values at the even positions, in source order
ValuesOf(toks) == [j \in 1..((Len(toks) + 1) \div 2) |-> Translation(toks[2 * j - 1])]

(***************************************************************************)
(* C2  For a bracket group whose children are n >= 0 values separated by   *)
(* commas, each translating, parse_array returns exactly the n             *)
(* translations in source order (nothing dropped, duplicated, reordered),  *)
(* and the empty sequence, without error, for empty brackets.              *)
(***************************************************************************)
C2_ArrayOrderPreserved ==
    (call.fn = "parse_array" /\ SeparatedValues(tts)) =>
        /\ out.ret = Some(ValuesOf(tts))
        /\ Len(out.ret[1]) = (Len(tts) + 1) \div 2
        /\ out.diags = <<>>

\* three values of which the first and the last differ
C2_Witness ==
    /\ call.fn = "parse_array"
    /\ SeparatedValues(tts)
    /\ Len(tts) = 5
    /\ is_some(out.ret)
    /\ out.ret[1][1] # out.ret[1][3]
    /\ tts[1].tok # tts[5].tok

(***************************************************************************)
(* C7  parse_array succeeds exactly when every odd position holds a comma  *)
(* and every even position a token tree that translates; it never checks   *)
(* that the last token is a value, so a sequence ending in a dangling      *)
(* comma is accepted and yields the expressions of the same input without  *)
(* the final comma.                                                        *)
(***************************************************************************)
C7_ArrayAcceptsDanglingComma ==
    call.fn = "parse_array" =>
        /\ is_some(out.ret) <=> ArrayRule(tts)
        /\ (ArrayRule(tts) /\ Len(tts) > 0 /\ Len(tts) % 2 = 0) =>
                /\ comma(tts[Len(tts)])
                /\ out.ret = parse_array(InvocationSpan, SubSeq(tts, 1, Len(tts) - 1)).ret
                /\ out.ret = Some(ValuesOf(SubSeq(tts, 1, Len(tts) - 1)))

\* [1,1,]: two values and a dangling comma, accepted
C7_Witness ==
    /\ call.fn = "parse_array"
    /\ Len(tts) = 4
    /\ comma(tts[4])
    /\ is_some(out.ret)
    /\ Len(out.ret[1]) = 2

\* the first token tree that violates the rule of the array (0: none)
FirstViolation(toks) ==
    IF ArrayRule(toks) THEN 0
    ELSE CHOOSE i \in 1..Len(toks) :
            /\ ~ArrayRuleAt(toks, i)
            /\ \A j \in 1..(i - 1) : ArrayRuleAt(toks, j)

\* the loop steps of the array itself, without those of nested arrays
OwnSteps == SelectSeq(out.log, LAMBDA e : e.fn = "parse_array.iter" /\ Len(e.sp) = 1)

(***************************************************************************)
(* C9  When parse_array fails, the failure belongs to the smallest         *)
(* position p that violates the rule: the diagnostic is that position's,   *)
(* the positions up to p were processed in increasing order, and nothing   *)
(* at a position above p is examined, translated or diagnosed, also when   *)
(* the failure lies inside a nested element.                               *)
(***************************************************************************)
C9_ArrayFailsFast ==
    (call.fn = "parse_array" /\ is_none(out.ret)) =>
        LET p == FirstViolation(tts) IN
        /\ p > 0
        /\ out.diags =
                IF (p - 1) % 2 = 1 THEN <<Expected("','", tts[p])>>
                ELSE tt_to_expr(tts[p]).diags
        /\ Len(out.diags) = 1
        /\ OwnSteps = [i \in 1..p |-> Ev("parse_array.iter", <<i>>)]
        /\ \A sp \in Touched : Len(sp) > 0 => sp[1] <= p

\* a failure inside a nested array, followed by a token tree that is no comma
C9_Witness ==
    /\ call.fn = "parse_array"
    /\ is_none(out.ret)
    /\ Len(tts) = 4
    /\ FirstViolation(tts) = 3
    /\ IsGroup(tts[3], "Bracket")
    /\ Len(out.diags[1].sp) = 2
    /\ ~comma(tts[4])

(***************************************************************************)
(* Objects                                                                 *)
(***************************************************************************)
IsStr(tt) == IsTok(tt, "LitStr")

\* the consecutive windows of four tokens the claims speak of
Windows(toks) ==
    [k \in 1..((Len(toks) + 3) \div 4) |->
        [j \in 1..(IF 4 * k <= Len(toks) THEN 4 ELSE Len(toks) - 4 * (k - 1)) |->
            toks[4 * (k - 1) + j]]]

\* string ':' value, or string ':' value ',' -- the value left unjudged
EntryShape(w) ==
    /\ Len(w) \in {3, 4}
    /\ IsStr(w[1])
    /\ colon(w[2])
    /\ Len(w) = 4 => comma(w[4])

\* a well-formed entry: the shape of an entry with a value that translates
WellFormedEntry(w) == EntryShape(w) /\ Translates(w[3])

\* the first window that is not a well-formed entry (0: none)
FirstBadWindow(toks) ==
    LET ws == Windows(toks) IN
    IF \A k \in 1..Len(ws) : WellFormedEntry(ws[k]) THEN 0
    ELSE CHOOSE k \in 1..Len(ws) :
            /\ ~WellFormedEntry(ws[k])
            /\ \A j \in 1..(k - 1) : WellFormedEntry(ws[j])

\* (string ':' value ','?)* from the i-th token on
RECURSIVE MatchesGrammar(_, _)
MatchesGrammar(toks, i) ==
    \/ i > Len(toks)
    \/ /\ i + 2 <= Len(toks)
       /\ IsStr(toks[i]) /\ colon(toks[i + 1]) /\ Translates(toks[i + 2])
       /\ \/ MatchesGrammar(toks, i + 3)
          \/ i + 3 <= Len(toks) /\ comma(toks[i + 3]) /\ MatchesGrammar(toks, i + 4)

\* (string ':' value ',')* (string ':' value)? from the i-th token on
RECURSIVE MatchesCommaGrammar(_, _)
MatchesCommaGrammar(toks, i) ==
    \/ i > Len(toks)
    \/ /\ i + 2 <= Len(toks)
       /\ IsStr(toks[i]) /\ colon(toks[i + 1]) /\ Translates(toks[i + 2])
       /\ \/ i + 2 = Len(toks)
          \/ i + 3 <= Len(toks) /\ comma(toks[i + 3]) /\ MatchesCommaGrammar(toks, i + 4)

\* the number of entries of a sequence that matches the comma grammar
EntryCount(toks) == (Len(toks) + 3) \div 4

\* the pairs of the entries of a sequence that matches the comma grammar
PairsOf(toks) ==
    [j \in 1..EntryCount(toks) |->
        <<ExprToString(toks[4 * j - 3].tok.v), Translation(toks[4 * j - 1])>>]

(***************************************************************************)
(* C5  As claimed: parse_object succeeds if and only if the sequence       *)
(* matches (string ':' value ','?)*, the comma after an entry optional.    *)
(***************************************************************************)
C5_Original_OptionalCommaGrammar ==
    call.fn = "parse_object" => (is_some(out.ret) <=> MatchesGrammar(tts, 1))

(***************************************************************************)
(* C5  As amended: parse_object succeeds if and only if the sequence       *)
(* matches (string ':' value ',')* (string ':' value)?: the comma is       *)
(* required between two entries and optional only after the last one; on   *)
(* success it returns one (key, value) pair per entry, in order.           *)
(***************************************************************************)
C5_ObjectGrammar ==
    call.fn = "parse_object" =>
        /\ is_some(out.ret) <=> MatchesCommaGrammar(tts, 1)
        /\ is_some(out.ret) => out.ret = Some(PairsOf(tts))

\* two entries, the last one without a comma
C5_Witness ==
    /\ call.fn = "parse_object"
    /\ is_some(out.ret)
    /\ Len(tts) = 7
    /\ Len(out.ret[1]) = 2
    /\ out.ret[1][1] # out.ret[1][2]

\* the key a key expression evaluates to: the text of the string literal
KeyOf(stmt) == stmt.insert_key.str

\* TreeMap::new() followed by the first n inserts: a later insert of a key
\* replaces the value the key had
RECURSIVE RunInserts(_, _)
RunInserts(stmts, n) ==
    IF n = 0 THEN <<>>
    ELSE LET m == RunInserts(stmts, n - 1)
             k == KeyOf(stmts[n])
         IN  [x \in (DOMAIN m) \cup {k} |->
                IF x = k THEN stmts[n].insert_value ELSE m[x]]

\* the last entry, in source order, whose key is k
LastEntryWithKey(toks, k) ==
    CHOOSE j \in 1..EntryCount(toks) :
        /\ toks[4 * j - 3].tok.v = k
        /\ \A i \in (j + 1)..EntryCount(toks) : toks[4 * i - 3].tok.v # k

(***************************************************************************)
(* C3  For a well-formed brace group the generated Object is built by one  *)
(* insert per source entry, in source order, into a fresh mapping, so the  *)
(* value finally mapped to a key is that of the LAST entry with that key;  *)
(* duplicate keys cause no failure and no diagnostic.                      *)
(***************************************************************************)
C3_ObjectLastWriteWins ==
    (call.fn = "tt_to_expr" /\ IsGroup(Arg, "Brace") /\ FirstBadWindow(Arg.tts) = 0) =>
        LET toks  == Arg.tts
            stmts == out.ret[1].stmts
            map   == RunInserts(stmts, Len(stmts))
        IN  /\ is_some(out.ret)
            /\ out.diags = <<>>
            /\ out.ret[1] = ExprObject(stmts)
            /\ Len(stmts) = EntryCount(toks)
            /\ \A j \in 1..Len(stmts) :
                    stmts[j] = StmtInsert(PairsOf(toks)[j][1], PairsOf(toks)[j][2])
            /\ DOMAIN map = {toks[4 * j - 3].tok.v : j \in 1..EntryCount(toks)}
            /\ \A k \in DOMAIN map :
                    map[k] = Translation(toks[4 * LastEntryWithKey(toks, k) - 1])

\* {"k": 1, "k": 2}: the same key twice, with different values
C3_Witness ==
    /\ call.fn = "tt_to_expr"
    /\ IsGroup(Arg, "Brace")
    /\ is_some(out.ret)
    /\ Len(out.ret[1].stmts) = 2
    /\ KeyOf(out.ret[1].stmts[1]) = KeyOf(out.ret[1].stmts[2])
    /\ Arg.tts[3].tok = LitInteger("1")
    /\ Arg.tts[7].tok = LitInteger("2")
    /\ RunInserts(out.ret[1].stmts, 2)[KeyOf(out.ret[1].stmts[1])]
            = ExprI64(Arg.tts[7])

WindowDiagnostic(w) ==
    CASE Len(w) = 4 /\ IsStr(w[1]) /\ colon(w[2]) /\ ~comma(w[4]) ->
            <<Expected("','", w[4])>>
      [] Len(w) = 2 /\ IsStr(w[1]) /\ colon(w[2]) ->
            <<span_err(w[2].sp, "found ':' but no value afterwards")>>
      [] Len(w) >= 2 /\ IsStr(w[1]) /\ ~colon(w[2]) ->
            <<Expected("':'", w[2])>>
      [] Len(w) = 1 /\ IsStr(w[1]) ->
            <<span_err(w[1].sp, "found name but no colon-value afterwards")>>
      [] ~IsStr(w[1]) ->
            <<Expected("string literal", w[1])>>
      [] OTHER -> \* the shape of an entry whose value does not translate
            tt_to_expr(w[3]).diags

(***************************************************************************)
(* C6  When a window of four (the last possibly shorter) is not a          *)
(* well-formed entry, parse_object fails with the first applicable         *)
(* diagnostic of: (a) string, colon, any third tree, fourth token no       *)
(* comma: expected ',' for the fourth, the third not translated; (b)       *)
(* exactly string, colon: found ':' but no value, at the colon; (c)        *)
(* string, second token no colon: expected ':' for the second; (d) a lone  *)
(* string: found name but no colon-value, at the string; (e) first token   *)
(* no string literal: expected string literal for the first.  The window   *)
(* judged is the first one that is not a well-formed entry.                *)
(***************************************************************************)
C6_WindowDiagnostics ==
    call.fn = "parse_object" =>
        LET ws == Windows(tts)
            b  == FirstBadWindow(tts)
        IN  /\ b = 0 => is_some(out.ret)
            /\ b > 0 =>
                /\ is_none(out.ret)
                /\ out.diags = WindowDiagnostic(ws[b])
                /\ Len(out.diags) = 1
                /\ (Len(ws[b]) = 4 /\ IsStr(ws[b][1]) /\ colon(ws[b][2]) /\ ~comma(ws[b][4])) =>
                        \A j \in 1..Len(out.log) : ~IsPrefix(ws[b][3].sp, out.log[j].sp)

\* the second window is string, colon, a value that does not translate, and
\* a fourth token that is no comma: case (a) wins over the value's failure
C6_Witness ==
    /\ call.fn = "parse_object"
    /\ is_none(out.ret)
    /\ Len(tts) = 8
    /\ FirstBadWindow(tts) = 2
    /\ IsStr(tts[5]) /\ colon(tts[6]) /\ ~Translates(tts[7]) /\ ~comma(tts[8])
    /\ out.diags = <<Expected("','", tts[8])>>

(***************************************************************************)
(* Unary minus                                                             *)
(***************************************************************************)
\* the whole literal is a minus followed by a numeric literal
MinusLiteral == call.fn = "expand" /\ Len(tts) >= 2 /\ IsMinus(tts[1]) /\ IsNumber(tts[2])

\* the array reaches, at an even position, a minus followed by a number
MinusElement(i) ==
    /\ call.fn = "parse_array"
    /\ i + 1 <= Len(tts)
    /\ (i - 1) % 2 = 0
    /\ IsMinus(tts[i]) /\ IsNumber(tts[i + 1])
    /\ \A j \in 1..(i - 1) : ArrayRuleAt(tts, j)

\* the object reaches an entry whose value is a minus followed by a number
MinusValue(k) ==
    /\ call.fn = "parse_object"
    /\ 4 * k <= Len(tts)
    /\ IsStr(tts[4 * k - 3]) /\ colon(tts[4 * k - 2])
    /\ IsMinus(tts[4 * k - 1]) /\ IsNumber(tts[4 * k])
    /\ \A j \in 1..(k - 1) : WellFormedEntry(Windows(tts)[j])

\* the call failed with the classifier's diagnostic for the minus, alone
FailsAsUnexpected(tt) ==
    /\ IF call.fn = "expand" THEN out.ret = DummyResult(InvocationSpan)
       ELSE is_none(out.ret)
    /\ out.diags = <<Unexpected(tt)>>
    /\ out.diags[1].msg = <<"unexpected '", <<"-">>, "' in JSON">>

(***************************************************************************)
(* C4  As claimed: wherever a value is expected (the whole literal, an     *)
(* array element at an even position, the value of an object entry), a     *)
(* minus followed by a numeric literal fails with the single diagnostic    *)
(* unexpected '-' in JSON, reported for the minus token.                   *)
(***************************************************************************)
C4_Original_MinusAlwaysUnexpected ==
    /\ MinusLiteral => FailsAsUnexpected(tts[1])
    /\ \A i \in 1..Len(tts) : MinusElement(i) => FailsAsUnexpected(tts[i])
    /\ \A k \in 1..Len(tts) : MinusValue(k) => FailsAsUnexpected(tts[4 * k - 1])

(***************************************************************************)
(* C4  As amended: as the whole literal and as an array element at an even *)
(* position, a minus followed by a numeric literal fails with the single   *)
(* diagnostic unexpected '-' in JSON, reported for the minus token.  As    *)
(* the value of an object entry the minus and the literal are the third    *)
(* and fourth token of a window: parse_object fails with the single        *)
(* diagnostic expected ',' but found the literal, reported for the         *)
(* literal, and the minus is never handed to the classifier.               *)
(***************************************************************************)
C4_MinusBeforeNumber ==
    /\ MinusLiteral => FailsAsUnexpected(tts[1])
    /\ \A i \in 1..Len(tts) : MinusElement(i) => FailsAsUnexpected(tts[i])
    /\ \A k \in 1..Len(tts) : MinusValue(k) =>
            /\ is_none(out.ret)
            /\ out.diags = <<Expected("','", tts[4 * k])>>
            /\ out.diags[1].sp = tts[4 * k].sp
            /\ tts[4 * k - 1].sp \notin Touched

\* {"a": 1, "a": -1}: the minus is the value of the second entry
C4_Witness ==
    /\ MinusValue(2)
    /\ Len(tts) = 8
    /\ Len(out.diags) = 1

\* the token tree a span leads to, from the token trees of a group
RECURSIVE NodeAt(_, _)
NodeAt(toks, sp) ==
    IF Len(sp) = 1 THEN toks[sp[1]]
    ELSE NodeAt(toks[sp[1]].tts, Tail(sp))

\* the span lies strictly inside a parenthesis group of the input
InsideEscape(sp) ==
    \/ call.fn = "tt_to_expr" /\ call.i = 0 /\ call.delim = "Paren" /\ Len(sp) >= 1
    \/ \E n \in 1..(Len(sp) - 1) : IsGroup(NodeAt(tts, SubSeq(sp, 1, n)), "Paren")

Escaped(tt) == ExprToJson(parse_expr(tt.tts))

(***************************************************************************)
(* C8  For a parenthesis group, whatever its children are, tt_to_expr      *)
(* passes no child to token_to_expr, parse_array, parse_object or          *)
(* tt_to_expr, emits no diagnostic and returns the externally parsed       *)
(* expression wrapped in the conversion; equally when the group is an      *)
(* array element or an object value.                                       *)
(***************************************************************************)
C8_EscapeIsOpaque ==
    /\ (call.fn = "tt_to_expr" /\ IsGroup(Arg, "Paren")) =>
            out = R(Some(Escaped(Arg)), <<>>, <<Ev("tt_to_expr", Arg.sp)>>)
    /\ \A sp \in Touched : ~InsideEscape(sp)
    /\ (call.fn = "parse_array" /\ is_some(out.ret)) =>
            \A j \in 1..Len(out.ret[1]) :
                IsGroup(tts[2 * j - 1], "Paren") => out.ret[1][j] = Escaped(tts[2 * j - 1])
    /\ (call.fn = "parse_object" /\ is_some(out.ret)) =>
            \A j \in 1..Len(out.ret[1]) :
                IsGroup(tts[4 * j - 1], "Paren") => out.ret[1][j][2] = Escaped(tts[4 * j - 1])

\* an escape that holds a minus and a colon, as the value of an object entry
C8_Witness ==
    /\ call.fn = "parse_object"
    /\ is_some(out.ret)
    /\ Len(tts) >= 3
    /\ IsGroup(tts[3], "Paren")
    /\ \E j \in 1..Len(tts[3].tts) : IsMinus(tts[3].tts[j])
    /\ out.ret[1][1][2] = Escaped(tts[3])

(***************************************************************************)
(* C10  expand translates only the first token tree of the body: for a     *)
(* non-empty body the result and the diagnostics are those of the body     *)
(* reduced to its first token tree, the further token trees are ignored    *)
(* without a diagnostic, and only an empty body produces the diagnostic    *)
(* expected JSON literal.                                                  *)
(***************************************************************************)
C10_ExpandFirstTreeOnly ==
    call.fn = "expand" =>
        /\ Len(tts) >= 1 =>
                /\ out = expand(InvocationSpan, <<tts[1]>>)
                /\ out.ret = IF Translates(tts[1]) THEN MacExpr(Translation(tts[1]))
                             ELSE DummyResult(InvocationSpan)
                /\ out.diags = tt_to_expr(tts[1]).diags
                /\ \A sp \in Touched : Len(sp) >= 1 => sp[1] = 1
        /\ span_err(InvocationSpan, "expected JSON literal") \in Range(out.diags)
                <=> Len(tts) = 0

\* "a": 1 as the body: the value of the string alone, and no diagnostic
C10_Witness ==
    /\ call.fn = "expand"
    /\ Len(tts) = 3
    /\ IsStr(tts[1]) /\ colon(tts[2]) /\ IsNumber(tts[3])
    /\ out.ret = MacExpr(ExprString(tts[1].tok.v))
    /\ out.diags = <<>>

============================================================================
